---- MODULE Spec2Model ----
(***************************************************************************)
(* Model of captum/attr/_utils/lrp_rules.py: the LRP propagation rules     *)
(* (PropagationRule, EpsilonRule, GammaRule, ZPlusRule, IdentityRule).     *)
(*                                                                         *)
(* Tensors are finite sequences (weights, bias) or single elements (the    *)
(* data and gradients seen by the backward hooks); every tensor operation  *)
(* of the source is elementwise, so one element stands for each element.   *)
(*                                                                         *)
(* Numbers.  Weights and gamma are dyadic rationals, on which the float    *)
(* arithmetic of the source is exact: gamma is GammaNum/GammaDen and a     *)
(* weight is an integer count of 1/WScale.  Outputs and STABILITY_FACTOR   *)
(* are integer counts of 1e-9, so the default STABILITY_FACTOR 1e-9 is 1.  *)
(* Adding two floats of the same sign never gives zero unless both are     *)
(* zero, and adding two of opposite sign gives zero exactly when they are  *)
(* opposite, so the integer sum is zero exactly when the float sum is.     *)
(***************************************************************************)
EXTENDS Integers, Sequences, FiniteSets, TLC

VARIABLES
    \* ---- forward_hook_weights / _manipulate_weights (SpecW) ----
    wrule,        \* the rule instance: [kind, gamma, set_bias_to_zero]
    module,       \* the hooked module: [hasWeight, weight, bias]
    activations,  \* module.activations: [set, val], val a tuple of data
    fhwInputs,    \* the inputs argument of the running / last call
    pc,           \* position in forward_hook_weights: "idle" or "line76"
    calls,        \* completed forward_hook_weights calls
    w0,           \* module as it was before the first call
    wStart,       \* module as it was when the running / last call started
    \* ---- forward_hook and the backward hooks (SpecH, SpecR) ----
    rules,        \* rule instance -> its attributes
    hookReg,      \* input tensors carrying the attribute hook_registered
    inHooks,      \* input tensor -> sequence of input hook closures on it
    outHooks,     \* output tensor -> sequence of output hook closures on it
    phase,        \* "forward" or "backward" pass of the host framework
    tdata,        \* [in, out]: the data of each input and output tensor
    pass,         \* bookkeeping of the current pass (calls, fired hooks)
    last          \* the last hook call: its arguments and what it returned

wvars == <<wrule, module, activations, fhwInputs, pc, calls, w0, wStart>>
hvars == <<rules, hookReg, inHooks, outHooks, phase, tdata, pass, last>>
vars == <<wvars, hvars>>

-----------------------------------------------------------------------------
(* Bounds and value sets *)

MaxCalls == 3        \* forward_hook_weights calls on the module
WLen == 2            \* elements of a weight / bias tensor
MaxInputs == 2       \* inputs of one forward_hook_weights call

(* gamma is GammaNum / GammaDen; the default 0.25 is 1 / GammaDen *)
GammaDen == 4
Gammas == {-8, -2, 0, 1, 4}

(* a weight w is the number w / WScale: MaxCalls rewrites stay exact *)
WScale == GammaDen ^ (MaxCalls + 1)
WeightVals == {-1 * WScale, 0, 2 * WScale}
DataVals == {-1, 2}


-----------------------------------------------------------------------------
(* Tensor helpers *)

\* torch.Tensor.clamp(min=lo), elementwise
ClampMin(t, lo) == [i \in DOMAIN t |-> IF t[i] < lo THEN lo ELSE t[i]]

\* torch.zeros_like
ZerosLike(t) == [i \in DOMAIN t |-> 0]

\* a + (GammaNum / GammaDen) * b, elementwise
AddScaled(a, g, b) == [i \in DOMAIN a |-> a[i] + (g * b[i]) \div GammaDen]

Tensors(vals, n) == [1..n -> vals]

\* tuple(input.data for input in inputs)
DataTuple(inputs) == [i \in DOMAIN inputs |-> inputs[i].data]

-----------------------------------------------------------------------------
(* _manipulate_weights of each rule: the module after the call *)

\* m.bias is [attr, data]: attr "absent" (no attribute), "None" or "tensor"
SetBias(self, m) ==
    IF self.set_bias_to_zero /\ m.bias.attr # "absent" /\ m.bias.attr # "None"
    THEN [m.bias EXCEPT !.data = ZerosLike(m.bias.data)]
    ELSE m.bias

\* EpsilonRule._manipulate_weights (line 115): pass
EpsilonRule_manipulate_weights(self, m) == m

\* a faulty GammaRule: gamma is applied to every weight, not the positive ones
GammaRule_manipulate_weights_NoClamp(self, m) ==
    [m EXCEPT !.weight = IF m.hasWeight
                         THEN AddScaled(m.weight, self.gamma, m.weight)
                         ELSE m.weight,
              !.bias = SetBias(self, m)]

\* GammaRule._manipulate_weights (lines 140-146)
GammaRule_manipulate_weights(self, m) ==
    [m EXCEPT !.weight = IF m.hasWeight
                         THEN AddScaled(m.weight, self.gamma, ClampMin(m.weight, 0))
                         ELSE m.weight,
              !.bias = SetBias(self, m)]

\* a faulty ZPlusRule: the absolute value instead of the clamp
ZPlusRule_manipulate_weights_Abs(self, m) ==
    [m EXCEPT !.weight = IF m.hasWeight
                         THEN [i \in DOMAIN m.weight |->
                                 IF m.weight[i] < 0 THEN -m.weight[i] ELSE m.weight[i]]
                         ELSE m.weight,
              !.bias = SetBias(self, m)]

\* ZPlusRule._manipulate_weights (lines 171-175)
ZPlusRule_manipulate_weights(self, m) ==
    [m EXCEPT !.weight = IF m.hasWeight THEN ClampMin(m.weight, 0) ELSE m.weight,
              !.bias = SetBias(self, m)]

\* dynamic dispatch of self._manipulate_weights (IdentityRule inherits EpsilonRule's)
manipulate_weights(self, m) ==
    CASE self.kind = "Gamma" -> GammaRule_manipulate_weights(self, m)
      [] self.kind = "ZPlus" -> ZPlusRule_manipulate_weights(self, m)
      [] OTHER -> EpsilonRule_manipulate_weights(self, m)

-----------------------------------------------------------------------------
(* forward_hook_weights, statement by statement *)

\* a faulty order of lines 75 and 76: the module is rewritten before the save
forward_hook_weights_save_Late(inputs) ==
    /\ pc = "idle"
    /\ calls < MaxCalls
    /\ fhwInputs' = inputs
    /\ wStart' = module
    /\ module' = manipulate_weights(wrule, module)
    /\ pc' = "line76"
    /\ UNCHANGED <<wrule, activations, calls, w0>>

\* line 75: module.activations = tuple(input.data for input in inputs)
forward_hook_weights_save(inputs) ==
    /\ pc = "idle"
    /\ calls < MaxCalls
    /\ fhwInputs' = inputs
    /\ wStart' = module
    /\ activations' = [set |-> TRUE, val |-> DataTuple(inputs)]
    /\ pc' = "line76"
    /\ UNCHANGED <<wrule, module, calls, w0>>

\* line 76: self._manipulate_weights(module, inputs, outputs)
forward_hook_weights_manipulate ==
    /\ pc = "line76"
    /\ module' = manipulate_weights(wrule, module)
    /\ pc' = "idle"
    /\ calls' = calls + 1
    /\ UNCHANGED <<wrule, activations, fhwInputs, w0, wStart>>

InputTuples ==
    UNION {[1..n -> [data : DataVals]] : n \in 1..MaxInputs}

WRules ==
    {[kind |-> "Epsilon", gamma |-> 0, set_bias_to_zero |-> FALSE],
     [kind |-> "Identity", gamma |-> 0, set_bias_to_zero |-> FALSE]}
    \cup [kind : {"Gamma"}, gamma : Gammas, set_bias_to_zero : BOOLEAN]
    \cup [kind : {"ZPlus"}, gamma : {0}, set_bias_to_zero : BOOLEAN]

Biases ==
    {[attr |-> "absent", data |-> <<>>], [attr |-> "None", data |-> <<>>],
     [attr |-> "tensor", data |-> [i \in 1..WLen |-> i]]}

Modules ==
    [hasWeight : {TRUE}, weight : Tensors(WeightVals, WLen), bias : Biases]
    \cup [hasWeight : {FALSE}, weight : {<<>>}, bias : Biases]

HIdle ==
    /\ rules = <<>>
    /\ hookReg = {}
    /\ inHooks = <<>>
    /\ outHooks = <<>>
    /\ phase = "none"
    /\ tdata = <<>>
    /\ pass = <<>>
    /\ last = <<>>

InitW ==
    /\ wrule \in WRules
    /\ module \in Modules
    /\ activations = [set |-> FALSE, val |-> <<>>]
    /\ fhwInputs = <<>>
    /\ pc = "idle"
    /\ calls = 0
    /\ w0 = module
    /\ wStart = module
    /\ HIdle

NextW ==
    \/ \E inputs \in InputTuples :
          forward_hook_weights_save(inputs) /\ UNCHANGED hvars
    \/ forward_hook_weights_manipulate /\ UNCHANGED hvars

SpecW == InitW /\ [][NextW]_vars

-----------------------------------------------------------------------------
(* Claims about the weight rewriting, checked under SpecW *)

Max0(x) == IF x < 0 THEN 0 ELSE x

\* C2: after one or more forward_hook_weights calls of a ZPlusRule on a module
\* that has a weight, every weight element is max(w0, 0) of its value before
\* the first call: none is negative, and a further call changes nothing.
C2_ZPlusKeepsOnlyPositive ==
    (wrule.kind = "ZPlus" /\ module.hasWeight /\ calls >= 1) =>
        /\ Len(module.weight) = Len(w0.weight)
        /\ \A i \in DOMAIN module.weight :
              /\ module.weight[i] = Max0(w0.weight[i])
              /\ module.weight[i] >= 0

C2_Witness ==
    /\ wrule.kind = "ZPlus" /\ module.hasWeight /\ calls >= 2 /\ pc = "idle"
    /\ \E i, j \in DOMAIN w0.weight : w0.weight[i] < 0 /\ w0.weight[j] > 0

\* C3: each forward_hook_weights call of GammaRule(gamma) replaces every weight
\* element w (its value when the call starts) by w + gamma*max(w, 0): a
\* positive weight becomes w*(1+gamma), a zero or negative one is unchanged;
\* after k calls a positive weight is w0*(1+gamma)^k when gamma >= 0.
C3_GammaIncreasesPositive ==
    (wrule.kind = "Gamma" /\ module.hasWeight /\ calls >= 1 /\ pc = "idle") =>
        \A i \in DOMAIN module.weight :
            LET w == wStart.weight[i]
                g == wrule.gamma
            IN  /\ GammaDen * module.weight[i] = GammaDen * w + g * Max0(w)
                /\ w > 0 => GammaDen * module.weight[i] = w * (GammaDen + g)
                /\ w <= 0 => module.weight[i] = w
                /\ (g >= 0 /\ w0.weight[i] > 0) =>
                      (GammaDen ^ calls) * module.weight[i]
                          = w0.weight[i] * ((GammaDen + g) ^ calls)

C3_Witness ==
    /\ wrule.kind = "Gamma" /\ module.hasWeight /\ calls >= 2 /\ pc = "idle"
    /\ wrule.gamma > 0
    /\ \E i, j \in DOMAIN w0.weight :
          /\ w0.weight[i] < 0 /\ w0.weight[j] > 0
          /\ module.weight[j] > wStart.weight[j] /\ wStart.weight[j] > w0.weight[j]

\* C6: on every forward_hook_weights call module.activations is set to one
\* entry per input, in input order, each the input's data at the start of the
\* call, and this is done before _manipulate_weights changes weight or bias.
C6_ActivationsSavedBeforeChange ==
    /\ pc = "line76" =>
          /\ module = wStart
          /\ activations.set
          /\ Len(activations.val) = Len(fhwInputs)
          /\ \A i \in DOMAIN fhwInputs : activations.val[i] = fhwInputs[i].data
    /\ (pc = "idle" /\ calls >= 1) =>
          /\ activations.set
          /\ Len(activations.val) = Len(fhwInputs)
          /\ \A i \in DOMAIN fhwInputs : activations.val[i] = fhwInputs[i].data

C6_Witness ==
    /\ pc = "line76"
    /\ Len(fhwInputs) >= 2 /\ fhwInputs[1].data # fhwInputs[2].data
    /\ manipulate_weights(wrule, module).weight # module.weight
    /\ manipulate_weights(wrule, module).bias # module.bias

-----------------------------------------------------------------------------
(* forward_hook and the backward hook closures *)

MaxIn == 2           \* inputs of one forward_hook call
MaxPasses == 2       \* forward/backward passes (SpecH, SpecE)
MaxRegCalls == 2     \* forward_hook calls (SpecR)

RuleIds == {1, 2}    \* rule instances, one per hooked layer, in layer order
InT == {1, 2}        \* input tensors alive in one pass
OutT == RuleIds      \* one output tensor per hooked layer

(* the class attribute, line 18: 1e-9, in units of 1e-9 *)
STABILITY_FACTOR == 1
EpsVals == {0, 1, 2}
OutVals == {-1, 0, 1}
GradVals == {1, 3}
InDataFns == {[x \in InT |-> x + 1]}
OutDataFns == [OutT -> OutVals]

\* a tensor element as a quotient num/den; den = 0 is the float inf or nan
Frac(n, d) == [num |-> n, den |-> d]

NoVal == Frac(0, 1)

\* the attributes __init__ gives a rule instance, and those set later
NewRule(kind, sf) ==
    [kind |-> kind,
     STABILITY_FACTOR |-> sf,
     has_single_input |-> [set |-> FALSE, val |-> FALSE],
     handle_input_hooks |-> <<>>,
     handle_output_hook |-> <<>>,
     relevance_input |-> [single |-> FALSE, vals |-> <<>>],
     relevance_output |-> [set |-> FALSE, val |-> NoVal]]

\* PropagationRule subclasses without __init__ argument keep the class
\* attribute; EpsilonRule.__init__ (inherited by IdentityRule) overrides it
RuleConfigs ==
    {NewRule(k, STABILITY_FACTOR) : k \in {"Gamma", "ZPlus"}}
    \cup {NewRule(k, e) : k \in {"Epsilon", "Identity"}, e \in EpsVals}

\* a faulty line 30: the attribute is never looked at
not_hook_registered_Always(x, reg) == TRUE

\* line 30: not hasattr(input, "hook_registered")
not_hook_registered(x, reg) == x \notin reg

\* a faulty line 28: the list of the earlier pass is kept
reset_relevance_input_Keep(old) ==
    [single |-> FALSE, vals |-> old.vals]

\* line 28: self.relevance_input = []

reset_relevance_input(old) == [single |-> FALSE, vals |-> <<>>]

\* _create_backward_hook_input: the closure, of the class of self
create_backward_hook_input(r, kind, data, call) ==
    [self |-> r, identity |-> (kind = "Identity"), inputs |-> data, call |-> call]

\* _create_backward_hook_output
create_backward_hook_output(r, data, call) ==
    [self |-> r, outputs |-> data, call |-> call]

\* lines 29-33: the loop over the inputs, from position i on
RECURSIVE RegisterInputs(_, _, _, _, _, _, _)
RegisterInputs(r, kind, inputs, data, call, i, acc) ==
    IF i > Len(inputs) THEN acc
    ELSE LET x == inputs[i] IN
         IF not_hook_registered(x, acc.hookReg)
         THEN RegisterInputs(r, kind, inputs, data, call, i + 1,
                [hookReg |-> acc.hookReg \cup {x},
                 inHooks |-> [acc.inHooks EXCEPT
                                ![x] = Append(@, create_backward_hook_input(
                                                    r, kind, data[x], call))],
                 handles |-> Append(acc.handles, <<x, Len(acc.inHooks[x]) + 1>>)])
         ELSE RegisterInputs(r, kind, inputs, data, call, i + 1, acc)

\* forward_hook (lines 25-36) of rule r on the tuple inputs and the tensor y
\* holding odata; st = [rules, hookReg, inHooks, outHooks], data = input data
forward_hook(st, r, inputs, y, odata, data, call) ==
    LET self == st.rules[r]
        reg == RegisterInputs(r, self.kind, inputs, data, call, 1,
                 [hookReg |-> st.hookReg, inHooks |-> st.inHooks, handles |-> <<>>])
        self2 == [self EXCEPT
                    !.has_single_input = [set |-> TRUE, val |-> (Len(inputs) = 1)],
                    !.handle_input_hooks = reg.handles,
                    !.relevance_input = reset_relevance_input(@),
                    !.handle_output_hook = <<y, Len(st.outHooks[y]) + 1>>]
    IN  [rules |-> [st.rules EXCEPT ![r] = self2],
         hookReg |-> reg.hookReg,
         inHooks |-> reg.inHooks,
         outHooks |-> [st.outHooks EXCEPT
                         ![y] = Append(@, create_backward_hook_output(r, odata, call))]]

\* torch.sign, then sign[sign == 0] = 1 (lines 60-61)
Sign(o) == IF o > 0 THEN 1 ELSE IF o < 0 THEN -1 ELSE 0

SignNoZero(o) == IF Sign(o) = 0 THEN 1 ELSE Sign(o)

\* line 62: outputs + sign * self.STABILITY_FACTOR
Divisor(self, outputs) == outputs + SignNoZero(outputs) * self.STABILITY_FACTOR

\* a faulty _backward_hook_output: relevance_output is the returned relevance
backward_hook_output_StoresRelevance(self, hook, grad) ==
    LET relevance == Frac(grad.num, grad.den * Divisor(self, hook.outputs))
    IN  [self |-> [self EXCEPT !.relevance_output = [set |-> TRUE, val |-> relevance]],
         ret |-> relevance,
         divisor |-> Divisor(self, hook.outputs)]

\* _backward_hook_output (lines 59-64): the rule after the call, the returned
\* relevance grad / divisor, and the divisor
backward_hook_output(self, hook, grad) ==
    LET relevance == Frac(grad.num, grad.den * Divisor(self, hook.outputs))
    IN  [self |-> [self EXCEPT !.relevance_output = [set |-> TRUE, val |-> grad]],
         ret |-> relevance,
         divisor |-> Divisor(self, hook.outputs)]

\* PropagationRule._create_backward_hook_input._backward_hook_input (46-52)
base_backward_hook_input(self, hook, grad) ==
    LET relevance == Frac(grad.num * hook.inputs, grad.den)
    IN  [self |-> [self EXCEPT !.relevance_input =
                     IF self.has_single_input.val
                     THEN [single |-> TRUE, vals |-> <<relevance>>]
                     ELSE [single |-> FALSE, vals |-> Append(@.vals, relevance)]],
         ret |-> relevance,
         err |-> IF ~self.has_single_input.val /\ self.relevance_input.single
                 THEN "AttributeError" ELSE "none"]

\* IdentityRule._create_backward_hook_input._backward_hook_input (188-189)
identity_backward_hook_input(self, hook, grad) ==
    [self |-> self,
     ret |-> self.relevance_output.val,
     err |-> IF self.relevance_output.set THEN "none" ELSE "AttributeError"]

backward_hook_input(self, hook, grad) ==
    IF hook.identity
    THEN identity_backward_hook_input(self, hook, grad)
    ELSE base_backward_hook_input(self, hook, grad)

\* the hooks registered on one tensor run in registration order, each on the
\* gradient the previous one returned
RECURSIVE RunInputHooks(_, _, _, _)
RunInputHooks(hooks, i, rs, grad) ==
    IF i > Len(hooks) THEN [rules |-> rs, ret |-> grad, err |-> "none", n |-> 0]
    ELSE LET h == hooks[i]
             one == backward_hook_input(rs[h.self], h, grad)
             rest == RunInputHooks(hooks, i + 1,
                                   [rs EXCEPT ![h.self] = one.self], one.ret)
         IN  [rules |-> rest.rules, ret |-> rest.ret,
              err |-> IF one.err # "none" THEN one.err ELSE rest.err,
              n |-> rest.n + 1]

-----------------------------------------------------------------------------
(* The host framework: module calls and autograd's backward pass *)

Range(f) == {f[i] : i \in DOMAIN f}

NoLast ==
    [op |-> "none", rule |-> 0, tensor |-> 0, grad |-> NoVal, ret |-> NoVal,
     divisor |-> 1, err |-> "none"]

\* n: passes finished; ncalls: forward_hook calls so far; per rule, the inputs
\* of its latest call and the tensors marked when that call started; the
\* output hooks fired in this backward pass with the gradient each received;
\* the input tensors whose hooks fired, in firing order, with their gradient;
\* per input tensor the first call that saw it; per output tensor its calls
NewPass(n) ==
    [n |-> n, ncalls |-> 0, called |-> {},
     inputs |-> [r \in RuleIds |-> <<>>],
     markedBefore |-> [r \in RuleIds |-> {}],
     firedOut |-> {},
     outGrad |-> [r \in RuleIds |-> NoVal],
     firedIn |-> <<>>,
     inGrad |-> [x \in InT |-> 0],
     firstSeen |-> [x \in InT |-> 0],
     outCalls |-> [y \in OutT |-> 0]]

InputSeqs == UNION {[1..n -> InT] : n \in 1..MaxIn}

WInit ==
    /\ wrule = [kind |-> "Epsilon", gamma |-> 0, set_bias_to_zero |-> FALSE]
    /\ module = [hasWeight |-> FALSE, weight |-> <<>>,
                 bias |-> [attr |-> "absent", data |-> <<>>]]
    /\ activations = [set |-> FALSE, val |-> <<>>]
    /\ fhwInputs = <<>>
    /\ pc = "idle"
    /\ calls = 0
    /\ w0 = module
    /\ wStart = module

\* the state after the rules are constructed, before any pass
HookInit ==
    /\ WInit
    /\ hookReg = {}
    /\ inHooks = [x \in InT |-> <<>>]
    /\ outHooks = [y \in OutT |-> <<>>]
    /\ phase = "forward"
    /\ pass = NewPass(0)
    /\ last = NoLast

\* rules of every class with the default STABILITY_FACTOR, outputs of 1e-9
InitH ==
    /\ HookInit
    /\ rules \in [RuleIds -> {c \in RuleConfigs : c.STABILITY_FACTOR = STABILITY_FACTOR}]
    /\ tdata \in [in : InDataFns, out : {[y \in OutT |-> 1]}]

\* the first rule of every class and epsilon, outputs of either sign and zero
InitE ==
    /\ HookInit
    /\ rules \in {f \in [RuleIds -> RuleConfigs] :
                    \A r \in RuleIds : r > 1 => f[r] = NewRule("ZPlus", STABILITY_FACTOR)}
    /\ tdata \in [in : InDataFns, out : OutDataFns]

\* the framework calls rule r's forward_hook after the module's forward
ForwardHookCall(r, inputs, y) ==
    LET call == pass.ncalls + 1
        st == forward_hook([rules |-> rules, hookReg |-> hookReg,
                            inHooks |-> inHooks, outHooks |-> outHooks],
                           r, inputs, y, tdata.out[y], tdata.in, call)
    IN  /\ rules' = st.rules
        /\ hookReg' = st.hookReg
        /\ inHooks' = st.inHooks
        /\ outHooks' = st.outHooks
        /\ pass' = [pass EXCEPT
                      !.ncalls = call,
                      !.called = @ \cup {r},
                      !.inputs[r] = inputs,
                      !.markedBefore[r] = hookReg,
                      !.firstSeen = [x \in InT |->
                                       IF @[x] = 0 /\ x \in Range(inputs)
                                       THEN call ELSE @[x]],
                      !.outCalls[y] = @ + 1]
        /\ last' = [NoLast EXCEPT !.op = "forward_hook", !.rule = r]
        /\ UNCHANGED <<phase, tdata>>

\* one forward pass calls the hooked layers in their order in the network,
\* each at most once and each on the fresh output tensor of that layer
H_ForwardHook(r, inputs) ==
    /\ phase = "forward"
    /\ pass.n < MaxPasses
    /\ \A q \in pass.called : q < r
    /\ ForwardHookCall(r, inputs, r)
    /\ UNCHANGED wvars

H_StartBackward ==
    /\ phase = "forward"
    /\ pass.called # {}
    /\ phase' = "backward"
    /\ UNCHANGED <<rules, hookReg, inHooks, outHooks, tdata, pass, last>>
    /\ UNCHANGED wvars

\* autograd reaches the output of r's layer with gradient g
H_BackwardHookOutput(r, g) ==
    /\ phase = "backward"
    /\ r \in pass.called \ pass.firedOut
    /\ LET h == rules[r].handle_output_hook
           hook == outHooks[h[1]][h[2]]
           res == backward_hook_output(rules[hook.self], hook, Frac(g, 1))
       IN  /\ rules' = [rules EXCEPT ![hook.self] = res.self]
           /\ last' = [NoLast EXCEPT !.op = "output_hook", !.rule = hook.self,
                         !.grad = Frac(g, 1), !.ret = res.ret,
                         !.divisor = res.divisor]
    /\ pass' = [pass EXCEPT !.firedOut = @ \cup {r}, !.outGrad[r] = Frac(g, 1)]
    /\ UNCHANGED <<hookReg, inHooks, outHooks, phase, tdata>>
    /\ UNCHANGED wvars

\* autograd reaches input tensor x with gradient g: every layer fed by x has
\* already received the gradient of its output
H_BackwardHookInput(x, g) ==
    /\ phase = "backward"
    /\ inHooks[x] # <<>>
    /\ x \notin Range(pass.firedIn)
    /\ \A r \in pass.called : x \in Range(pass.inputs[r]) => r \in pass.firedOut
    /\ LET res == RunInputHooks(inHooks[x], 1, rules, Frac(g, 1))
       IN  /\ rules' = res.rules
           /\ last' = [NoLast EXCEPT !.op = "input_hook",
                         !.rule = inHooks[x][1].self, !.tensor = x,
                         !.grad = Frac(g, 1), !.ret = res.ret, !.err = res.err]
    /\ pass' = [pass EXCEPT !.firedIn = Append(@, x), !.inGrad[x] = g]
    /\ UNCHANGED <<hookReg, inHooks, outHooks, phase, tdata>>
    /\ UNCHANGED wvars

\* the pass is over; the next one runs on tensors the framework creates anew
H_EndPass ==
    /\ phase = "backward"
    /\ pass.firedOut = pass.called
    /\ \A x \in InT : inHooks[x] # <<>> => x \in Range(pass.firedIn)
    /\ phase' = "forward"
    /\ hookReg' = {}
    /\ inHooks' = [x \in InT |-> <<>>]
    /\ outHooks' = [y \in OutT |-> <<>>]
    /\ pass' = NewPass(pass.n + 1)
    /\ last' = NoLast
    /\ UNCHANGED <<rules, tdata>>
    /\ UNCHANGED wvars

NextH ==
    \/ \E r \in RuleIds, inputs \in InputSeqs : H_ForwardHook(r, inputs)
    \/ H_StartBackward
    \/ \E r \in RuleIds, g \in GradVals : H_BackwardHookOutput(r, g)
    \/ \E x \in InT, g \in GradVals : H_BackwardHookInput(x, g)
    \/ H_EndPass

SpecH == InitH /\ [][NextH]_vars

SpecE == InitE /\ [][NextH]_vars

\* any sequence of forward_hook calls, on tensors that stay alive
R_ForwardHook(r, inputs, y) ==
    /\ pass.ncalls < MaxRegCalls
    /\ ForwardHookCall(r, inputs, y)
    /\ UNCHANGED wvars

InitR ==
    /\ InitH
    /\ \A r \in RuleIds : rules[r].kind \in {"ZPlus", "Identity"}

NextR ==
    \E r \in RuleIds, inputs \in InputSeqs, y \in OutT :
        R_ForwardHook(r, inputs, y)

SpecR == InitR /\ [][NextR]_vars

-----------------------------------------------------------------------------
(* Claims about the hooks *)

\* C1: in the output backward hook the divisor o + s*STABILITY_FACTOR, with
\* s = sign(o) forced to 1 when o = 0, is nonzero for every rule instance
\* (default STABILITY_FACTOR or any epsilon passed to EpsilonRule /
\* IdentityRule) and every output element o.  Checked under SpecE.
C1_NoZeroDivision ==
    last.op = "output_hook" => last.divisor # 0

\* C4: when the input hook of an IdentityRule fires, its output hook has fired
\* before it in this pass, relevance_output is set, and the value returned is
\* exactly the gradient that output hook received in this pass.  SpecH.
C4_IdentityPropagatesUnchanged ==
    (last.op = "input_hook" /\ rules[last.rule].kind = "Identity") =>
        /\ last.rule \in pass.firedOut
        /\ last.err = "none"
        /\ last.ret = pass.outGrad[last.rule]

C4_Witness ==
    /\ last.op = "input_hook" /\ rules[last.rule].kind = "Identity"
    /\ pass.n >= 1
    /\ last.grad # pass.outGrad[last.rule]
    /\ last.ret = pass.outGrad[last.rule]
    /\ \E q \in pass.firedOut : q # last.rule /\ pass.outGrad[q] # last.ret

\* C5: after any sequence of forward_hook calls every tensor passed as an
\* input is marked hook_registered and carries exactly one input hook, the
\* one created by the first call that saw it; every call has appended exactly
\* one output hook to its outputs; and _handle_input_hooks of a rule holds
\* one handle per input tensor of its latest call that was not marked when
\* the loop reached it (a tensor passed twice is marked at its first
\* position).  Checked under SpecR.
C5_NoDoubledInputHook ==
    /\ \A x \in InT :
          IF pass.firstSeen[x] # 0
          THEN /\ x \in hookReg
               /\ Len(inHooks[x]) = 1
               /\ inHooks[x][1].call = pass.firstSeen[x]
          ELSE x \notin hookReg /\ inHooks[x] = <<>>
    /\ \A y \in OutT : Len(outHooks[y]) = pass.outCalls[y]
    /\ \A y \in OutT : \A i, j \in DOMAIN outHooks[y] :
          i # j => outHooks[y][i].call # outHooks[y][j].call
    /\ \A r \in pass.called :
          /\ Len(rules[r].handle_input_hooks)
                = Cardinality(Range(pass.inputs[r]) \ pass.markedBefore[r])
          /\ \A i \in DOMAIN rules[r].handle_input_hooks :
                LET h == rules[r].handle_input_hooks[i]
                IN  /\ h[1] \in Range(pass.inputs[r]) \ pass.markedBefore[r]
                    /\ inHooks[h[1]][h[2]].self = r

C5_Witness ==
    /\ pass.ncalls >= 2
    /\ \E r, q \in pass.called :
          /\ r # q
          /\ Len(pass.inputs[r]) = 2
          /\ pass.inputs[r][1] = pass.inputs[r][2]
          /\ pass.inputs[r][1] \notin pass.markedBefore[r]
          /\ pass.inputs[r][1] \in Range(pass.inputs[q])
          /\ pass.inputs[r][1] \in pass.markedBefore[q]
          /\ Len(rules[q].handle_input_hooks) = 1
          /\ Len(pass.inputs[q]) = 2

\* the inputs of r's latest call are n distinct tensors, none marked before
FreshInputs(r) ==
    /\ r \in pass.called
    /\ Range(pass.inputs[r]) \cap pass.markedBefore[r] = {}
    /\ Cardinality(Range(pass.inputs[r])) = Len(pass.inputs[r])

\* the inputs of r whose hook has fired in this pass, in firing order
FiredOf(r) ==
    LET mine(x) == x \in Range(pass.inputs[r])
    IN  SelectSeq(pass.firedIn, mine)

\* C7: for a non-Identity rule, forward_hook resets relevance_input to an
\* empty list; after a forward_hook on n unmarked inputs, every input hook
\* that fires with gradient g_i returns g_i * x_i, and relevance_input is the
\* single value g_1*x_1 when n = 1 and, when n >= 2, the list of the values
\* g_i * x_i of the hooks fired so far, in firing order (n values at the end
\* of the pass), with nothing from an earlier pass.  Checked under SpecH.
C7_RelevanceInputOfLatestPass ==
    /\ (last.op = "input_hook" /\ rules[last.rule].kind # "Identity") =>
          last.ret = Frac(last.grad.num * tdata.in[last.tensor], 1)
    /\ \A r \in RuleIds :
          (rules[r].kind # "Identity" /\ FreshInputs(r)) =>
              LET n == Len(pass.inputs[r])
                  f == FiredOf(r)
                  val(x) == Frac(pass.inGrad[x] * tdata.in[x], 1)
                  ri == rules[r].relevance_input
              IN  /\ phase = "forward" => (~ri.single /\ ri.vals = <<>>)
                  /\ (n = 1 /\ f = <<>>) => (~ri.single /\ ri.vals = <<>>)
                  /\ (n = 1 /\ f # <<>>) =>
                        (ri.single /\ ri.vals = <<val(pass.inputs[r][1])>>)
                  /\ n >= 2 =>
                        /\ ~ri.single
                        /\ Len(ri.vals) = Len(f)
                        /\ \A i \in DOMAIN f : ri.vals[i] = val(f[i])

C7_Witness ==
    /\ phase = "backward" /\ pass.n >= 1
    /\ \E r \in RuleIds :
          /\ rules[r].kind # "Identity" /\ FreshInputs(r)
          /\ Len(pass.inputs[r]) = 2
          /\ Len(FiredOf(r)) = 2
          /\ FiredOf(r)[1] = pass.inputs[r][2]
          /\ Len(rules[r].relevance_input.vals) = 2
          /\ rules[r].relevance_input.vals[1] # rules[r].relevance_input.vals[2]

====
